---- MODULE Spec2Model ----
(***************************************************************************)
(* Model of the Cursor usage scraper (scraper.py): the ScraperState        *)
(* container, the CursorScraper public API (start, stop, request_fetch,    *)
(* request_login) and the browser thread (_browser_loop, _ensure_browser,  *)
(* _cleanup_browser, _do_login, _do_fetch).                                *)
(*                                                                         *)
(* Strings whose content the code inspects (error messages) are sequences  *)
(* of one-character strings.  An Optional value is None (the empty tuple)  *)
(* or Some(x) (the one-element tuple <<x>>).                               *)
(***************************************************************************)
EXTENDS Integers, Sequences, FiniteSets, TLC

(* ------------------------------ bounds -------------------------------- *)

\* Number of worker threads start() may spawn in one behaviour of Spec; the
\* restart specification allows one more.
MaxThreads == 1

\* Longest task queue explored in Spec; the restart specification allows one
\* more.
MaxQueue == 1

\* By how many characters the longest exception message exceeds TruncLen.
MaxExtra == 2

\* Login polling ceiling in seconds (max_wait; 300 in the source), scaled.
MaxWait == 2

\* Number of threads calling get_snapshot() in the lock specification.
MaxReaders == 1

\* Longest first row of the usage table explored in the parser specification.
MaxCells == 5

(* -------------------------- program constants ------------------------- *)

\* error_msg[:50], str(e)[:50]
TruncLen == 50

\* waited += 2
PollStep == 2

(* ------------------------------ strings ------------------------------- *)

None == << >>

Some(x) == <<x>>

PAGE_LOAD_TIMEOUT == <<"P", "a", "g", "e", " ", "l", "o", "a", "d", " ", "t", "i", "m", "e", "o", "u", "t">>

PLEASE_LOGIN == <<"P", "l", "e", "a", "s", "e", " ", "l", "o", "g", "i", "n">>

LOGIN_TIMEOUT == <<"L", "o", "g", "i", "n", " ", "t", "i", "m", "e", "o", "u", "t", " ", "-", " ", "p", "l", "e", "a", "s", "e", " ", "t", "r", "y", " ", "a", "g", "a", "i", "n">>

LOGIN_FAILED == <<"L", "o", "g", "i", "n", " ", "f", "a", "i", "l", "e", "d", ":", " ">>

LAUNCH_FAILED == <<"B", "r", "o", "w", "s", "e", "r", " ", "l", "a", "u", "n", "c", "h", " ", "f", "a", "i", "l", "e", "d", ":", " ">>

START_FAILED == <<"F", "a", "i", "l", "e", "d", " ", "t", "o", " ", "s", "t", "a", "r", "t", " ", "b", "r", "o", "w", "s", "e", "r", ":", " ">>

TimeoutWord == <<"T", "i", "m", "e", "o", "u", "t">>

Ellipsis == <<".", ".", ".">>

\* str(e) of the AttributeError raised by self._page.goto when self._page is None
NoPageMsg == <<"'", "N", "o", "n", "e", "T", "y", "p", "e", "'", " ", "o", "b", "j", "e", "c", "t", " ", "h", "a", "s", " ", "n", "o", " ", "a", "t", "t", "r", "i", "b", "u", "t", "e", " ", "'", "g", "o", "t", "o", "'">>

\* str(e) of a Playwright TimeoutError
TimeoutExceeded == <<"T", "i", "m", "e", "o", "u", "t", " ", "3", "0", "0", "0", "0", "m", "s", " ", "e", "x", "c", "e", "e", "d", "e", "d", ".">>

Min(a, b) == IF a < b THEN a ELSE b

\* Python's `sub in s`
Contains(s, sub) ==
    \E i \in 0..(Len(s) - Len(sub)) : SubSeq(s, i + 1, i + Len(sub)) = sub

\* Python's s[:n]
Prefix(s, n) == SubSeq(s, 1, Min(n, Len(s)))

\* A message of n characters without the word "Timeout"
Pad(n) == [i \in 1..n |-> "x"]

\* A message of n characters with the word "Timeout" starting at position p
PadTimeout(n, p) ==
    [i \in 1..n |-> IF i >= p /\ i < p + Len(TimeoutWord)
                    THEN TimeoutWord[i - p + 1] ELSE "x"]

\* Exception messages drawn by the lifecycle specifications
BaseMsgs == {Pad(TruncLen + 1)}

\* Exception messages drawn by the message specification: empty, short, at
\* the truncation limit, beyond it, and "Timeout" before, across and after
\* the truncation point
FullMsgs ==
    {Pad(0), Pad(1), TimeoutExceeded, NoPageMsg}
    \cup {Pad(TruncLen + k) : k \in -1..MaxExtra}
    \cup {PadTimeout(TruncLen + Len(TimeoutWord) + MaxExtra, p) :
            p \in {1, TruncLen - 3, TruncLen + 1, TruncLen + MaxExtra + 1}}

(* --------------------------- ScraperState ----------------------------- *)

\* Results a successful parse-and-timestamp may produce (usage data, HH:MM)
FetchResults == {<<"usage_a", "09:00">>, <<"usage_b", "09:15">>}

\* The result drawn by the lifecycle specifications
BaseResults == {<<"usage_a", "09:00">>}

ScraperStateInit ==
    [status |-> "idle", error |-> None, logged_in |-> FALSE,
     usage_data |-> None, last_fetch_time |-> None]

\* update(**kwargs): every given key that is a field is assigned
Update(st, kw) ==
    [f \in DOMAIN st |-> IF f \in DOMAIN kw THEN kw[f] ELSE st[f]]

(* ----------------------------- _parse_usage --------------------------- *)

UpperLetters == <<"A", "B", "C", "D", "E", "F", "G", "H", "I", "J", "K", "L", "M", "N", "O", "P", "Q", "R", "S", "T", "U", "V", "W", "X", "Y", "Z">>

LowerLetters == <<"a", "b", "c", "d", "e", "f", "g", "h", "i", "j", "k", "l", "m", "n", "o", "p", "q", "r", "s", "t", "u", "v", "w", "x", "y", "z">>

Digits == {"0", "1", "2", "3", "4", "5", "6", "7", "8", "9"}

\* str.lower() and re.I, one character
LowerChar(c) ==
    IF \E i \in DOMAIN UpperLetters : UpperLetters[i] = c
    THEN LowerLetters[CHOOSE i \in DOMAIN UpperLetters : UpperLetters[i] = c]
    ELSE c

\* str.lower()
Lower(s) == [i \in DOMAIN s |-> LowerChar(s[i])]

\* \w of the re module
WordChar(c) ==
    \/ \E i \in DOMAIN UpperLetters : c = UpperLetters[i] \/ c = LowerLetters[i]
    \/ c \in Digits
    \/ c = "_"

MaxWord == <<"m", "a", "x">>

ThinkingWord == <<"t", "h", "i", "n", "k", "i", "n", "g">>

\* re.compile(r'\bMax\b', re.I).search(s)
SearchMaxWord(s) ==
    \E i \in 1..(Len(s) - Len(MaxWord) + 1) :
        /\ Lower(SubSeq(s, i, i + Len(MaxWord) - 1)) = MaxWord
        /\ i = 1 \/ ~WordChar(s[i - 1])
        /\ i + Len(MaxWord) - 1 = Len(s) \/ ~WordChar(s[i + Len(MaxWord)])

\* `if len(cells) >= 4:`
MinCells == 4

\* cells[3], the model-name cell, counting from 1
ModelCell == 4

\* span.get('title') or span.get_text(strip=True), for a span whose title
\* attribute is None (absent) or Some(text)
TitleOrText(span) ==
    IF span.title # None /\ span.title[1] # << >> THEN span.title[1] ELSE span.text

\* UsageData(): the fields _parse_usage fills from the first row
UsageDataDefault ==
    [last_timestamp |-> None, last_model |-> None,
     is_thinking_mode |-> FALSE, is_max_mode |-> FALSE]

\* `if len(cells) >= 4:` guards all three extractions, the badge included
MaxBadgeLookedFor(cells) == Len(cells) >= MinCells

\* _parse_usage(html), html given as its dashboard-table-row elements, each
\* the sequence of its cells, each cell one span [title, text]
ParseUsage(rows) ==
    IF rows = << >> THEN UsageDataDefault
    ELSE LET cells == rows[1]
             extract == Len(cells) >= MinCells
             model == IF extract /\ cells[ModelCell].title # None
                      THEN Some(TitleOrText(cells[ModelCell])) ELSE None
         IN  [last_timestamp |-> IF extract THEN Some(TitleOrText(cells[1])) ELSE None,
              last_model |-> model,
              is_thinking_mode |->
                  /\ model # None
                  /\ model[1] # << >>
                  /\ Contains(Lower(model[1]), ThinkingWord),
              is_max_mode |->
                  /\ MaxBadgeLookedFor(cells)
                  /\ \E i \in DOMAIN cells : SearchMaxWord(cells[i].text)]

\* Texts a cell may show
CellTexts ==
    {<<"M", "a", "x">>,
     <<"m", "a", "x">>,
     <<"M", "a", "x", "i", "m", "a", "l", "-", "7", "B">>,
     <<"g", "p", "t", "-", "5", " ", "M", "A", "X">>,
     <<"c", "l", "i", "m", "a", "x">>,
     <<"M", "a", "x", "-", "M", "o", "d", "e">>,
     <<"m", "a", "x", "_", "m", "o", "d", "e">>,
     <<"c", "l", "a", "u", "d", "e", "-", "4", "-", "t", "h", "i", "n", "k", "i", "n", "g">>,
     <<"T", "h", "i", "n", "k", "i", "n", "g", " ", "M", "a", "x">>}

\* A cell that shows txt, with or without a title attribute
Cell(txt, titled) == [title |-> IF titled THEN Some(txt) ELSE None, text |-> txt]

PlainText == <<"g", "p", "t", "-", "5">>

\* The row of n cells whose k-th cell shows txt
RowWith(n, k, txt, titled) ==
    [i \in 1..n |-> IF i = k THEN Cell(txt, titled) ELSE Cell(PlainText, titled)]

\* Documents: no row, or a first row of 1..MaxCells cells, one of which
\* shows a text of CellTexts, alone or followed by a second row
Docs ==
    {<< >>}
    \cup {<<RowWith(n, k, txt, titled)>> :
            n \in 1..MaxCells, k \in 1..MaxCells, txt \in CellTexts, titled \in BOOLEAN}
    \cup {<<RowWith(MinCells, 1, PlainText, TRUE), RowWith(MinCells, 1, txt, TRUE)>> :
            txt \in CellTexts}

(* ------------------------------- state -------------------------------- *)

VARIABLES
    running,        \* self._running
    queue,          \* self._task_queue
    browser_thread, \* self._browser_thread: 0 (None) or the last thread spawned
    playwright,     \* self._playwright: 0 (None) or the driver (named by its thread)
    browser,        \* self._browser: "none", or the session's mode "hidden" / "visible"
    page,           \* self._page is not None
    state,          \* self.state (the ScraperState fields)
    pc,             \* per thread: position in _browser_loop
    exc,            \* per thread: the exception in flight, None or Some([msg, at])
    waited,         \* per thread: _do_login's local `waited`
    chained,        \* per thread: _do_fetch was called from _do_login
    attempted,      \* per thread: the running operation called launch_persistent_context
    outcome,        \* per thread: "launch_failed" if a launch failure ended its last
                    \* finished operation, else "other"
    pw,             \* per driver: "unstarted", "started", "stopped"
    pwStops,        \* per driver: number of stop() calls on it
    leaked,         \* a session lost its only reference without being closed
    caller,         \* the API caller: "ready", or "joining" inside stop()
    nthreads,       \* threads spawned so far
    lock,           \* ScraperState._lock: None, or Some(holder)
    wpc,            \* per thread: "idle", or "locked" inside update()
    pending,        \* per thread inside update(): the kwargs not yet assigned
    entry,          \* per thread inside update(): the fields at entry and the kwargs
    rpc,            \* per reader: "idle", or "locked" inside get_snapshot()
    got,            \* per reader inside get_snapshot(): the values read so far
    window,         \* per reader inside get_snapshot(): the fields as they stood
                    \* after each whole update since the call began
    committed,      \* the fields after the last whole update
    last,           \* the last step, when it was request_fetch ("request_fetch_put",
                    \* "request_fetch_skip"), request_login ("request_login_put",
                    \* "request_login_skip") or a start() that spawned nothing
                    \* ("start_noop"); "other" after any other step
    html            \* what self._page.content() returns: the document's
                    \* dashboard-table-row elements

vars == <<running, queue, browser_thread, playwright, browser, page, state, pc,
          exc, waited, chained, attempted, outcome, pw, pwStops, leaked, caller,
          nthreads, lock, wpc, pending, entry, rpc, got, window, committed, last, html>>

\* The variables of the stepwise model of ScraperState's lock
lockVars == <<lock, wpc, pending, entry, rpc, got, window, committed>>

Threads == 1..(MaxThreads + 1)

Readers == 1..MaxReaders

\* Positions of a thread inside _do_login / _do_fetch
LoginPcs == {"login_begin", "login_cleanup", "login_launching", "login_goto",
             "login_poll", "login_ok_cleanup", "login_except", "login_teardown"}

FetchPcs == {"fetch_begin", "fetch_launching", "fetch_goto", "fetch_wait",
             "fetch_read", "fetch_except"}

OpPcs == LoginPcs \cup FetchPcs

\* Positions of a live thread (spawned, not yet returned from _browser_loop)
LivePcs == OpPcs \cup {"start_pw", "loop", "get", "finally"}

\* Positions inside the `while self._running` loop of _browser_loop
LoopPcs == OpPcs \cup {"loop", "get"}

\* Positions whose next step is a call into the browser, which can outlast
\* join(timeout=5): close, launch, page.goto (timeout 60000 / 30000 ms),
\* wait_for_selector (timeout 10000 ms), wait_for_timeout and content
JoinBlockingPcs == OpPcs \ {"login_begin", "login_except", "fetch_begin",
                            "fetch_except"}

\* The scraper after __init__, whatever document the dashboard serves
ScraperInit ==
    /\ running = FALSE
    /\ queue = << >>
    /\ browser_thread = 0
    /\ playwright = 0
    /\ browser = "none"
    /\ page = FALSE
    /\ state = ScraperStateInit
    /\ pc = [t \in Threads |-> "unborn"]
    /\ exc = [t \in Threads |-> None]
    /\ waited = [t \in Threads |-> 0]
    /\ chained = [t \in Threads |-> FALSE]
    /\ attempted = [t \in Threads |-> FALSE]
    /\ outcome = [t \in Threads |-> "other"]
    /\ pw = [t \in Threads |-> "unstarted"]
    /\ pwStops = [t \in Threads |-> 0]
    /\ leaked = FALSE
    /\ caller = "ready"
    /\ nthreads = 0
    /\ lock = None
    /\ wpc = [t \in Threads |-> "idle"]
    /\ pending = [t \in Threads |-> << >>]
    /\ entry = [t \in Threads |-> None]
    /\ rpc = [r \in Readers |-> "idle"]
    /\ got = [r \in Readers |-> << >>]
    /\ window = [r \in Readers |-> {}]
    /\ committed = ScraperStateInit
    /\ last = "other"

\* The lifecycle specifications are served a dashboard without usage rows
Init == ScraperInit /\ html = << >>

\* What no API call but start() changes
workerVars == <<playwright, browser, page, pc, exc, waited, chained, attempted,
                outcome, pw, pwStops, leaked, lockVars, html>>

(* ----------------------------- public API ----------------------------- *)

\* start(): `if self._running: return`
StartSpawns == ~running

Start(limit) ==
    /\ caller = "ready"
    /\ IF StartSpawns
       THEN /\ nthreads < limit
            /\ running' = TRUE
            /\ nthreads' = nthreads + 1
            /\ browser_thread' = nthreads + 1
            /\ pc' = [pc EXCEPT ![nthreads + 1] = "start_pw"]
            /\ last' = "other"
       ELSE /\ last' = "start_noop"
            /\ UNCHANGED <<running, nthreads, browser_thread, pc>>
    /\ UNCHANGED <<queue, playwright, browser, page, state, exc, waited, chained,
                   attempted, outcome, pw, pwStops, leaked, caller, lockVars, html>>

\* stop(): clear the flag, put "STOP", then join(timeout=5) if a thread was spawned
Stop(qmax) ==
    /\ caller = "ready"
    /\ Len(queue) < qmax
    /\ running' = FALSE
    /\ queue' = Append(queue, "STOP")
    /\ caller' = IF browser_thread # 0 THEN "joining" ELSE "ready"
    /\ last' = "other"
    /\ UNCHANGED <<browser_thread, nthreads, state>>
    /\ UNCHANGED workerVars

\* join returns because the thread has exited
JoinReturn ==
    /\ caller = "joining"
    /\ pc[browser_thread] = "done"
    /\ caller' = "ready"
    /\ last' = "other"
    /\ UNCHANGED <<running, queue, browser_thread, nthreads, state>>
    /\ UNCHANGED workerVars

\* join returns after its 5 second timeout: the thread is inside a blocking call
JoinTimeout ==
    /\ caller = "joining"
    /\ pc[browser_thread] \in JoinBlockingPcs
    /\ caller' = "ready"
    /\ last' = "other"
    /\ UNCHANGED <<running, queue, browser_thread, nthreads, state>>
    /\ UNCHANGED workerVars

\* A guard that forgets "logging_in"
FetchAdmittedOnlyFetching(status) == status # "fetching"

\* A guard that forgets "fetching" (the guard of request_login)
FetchAdmittedOnlyLogin(status) == status # "logging_in"

\* request_fetch(): `if self.state.status not in ("fetching", "logging_in")`
FetchAdmitted(status) == status \notin {"fetching", "logging_in"}

RequestFetch(qmax) ==
    /\ caller = "ready"
    /\ IF FetchAdmitted(state.status)
       THEN /\ Len(queue) < qmax
            /\ queue' = Append(queue, "FETCH")
            /\ last' = "request_fetch_put"
       ELSE /\ queue' = queue
            /\ last' = "request_fetch_skip"
    /\ UNCHANGED <<running, browser_thread, nthreads, state, caller>>
    /\ UNCHANGED workerVars

\* A guard copied from request_fetch
LoginAdmittedAsFetch(status) == status \notin {"fetching", "logging_in"}

\* request_login(): `if self.state.status != "logging_in"`
LoginAdmitted(status) == status # "logging_in"

RequestLogin(qmax) ==
    /\ caller = "ready"
    /\ IF LoginAdmitted(state.status)
       THEN /\ Len(queue) < qmax
            /\ queue' = Append(queue, "LOGIN")
            /\ last' = "request_login_put"
       ELSE /\ queue' = queue
            /\ last' = "request_login_skip"
    /\ UNCHANGED <<running, browser_thread, nthreads, state, caller>>
    /\ UNCHANGED workerVars

(* --------------------------- browser thread --------------------------- *)

\* What no step of the browser thread changes
apiVars == <<running, browser_thread, caller, nthreads, lockVars, html>>

\* _cleanup_browser(): `if self._browser:` close it, then clear both handles
CleanupPage == IF browser # "none" THEN FALSE ELSE page

\* A handler that truncates before it looks for "Timeout"
FetchErrorMsgTruncatesFirst(msg) ==
    LET cut == IF Len(msg) > TruncLen THEN Prefix(msg, TruncLen) \o Ellipsis ELSE msg
    IN  IF Contains(cut, TimeoutWord) THEN PAGE_LOAD_TIMEOUT ELSE cut

\* The error string _do_fetch's handler publishes for str(e) = msg
FetchErrorMsg(msg) ==
    IF Contains(msg, TimeoutWord) THEN PAGE_LOAD_TIMEOUT
    ELSE IF Len(msg) > TruncLen THEN Prefix(msg, TruncLen) \o Ellipsis
    ELSE msg

\* The error string _do_login's handler publishes for str(e) = msg
LoginErrorMsg(msg) == LOGIN_FAILED \o Prefix(msg, TruncLen)

\* sync_playwright().start(), and the early return when it raises
StartPlaywright(t, M) ==
    /\ pc[t] = "start_pw"
    /\ \/ /\ playwright' = t
          /\ pw' = [pw EXCEPT ![t] = "started"]
          /\ pc' = [pc EXCEPT ![t] = "loop"]
          /\ state' = state
       \/ /\ \E m \in M :
                state' = Update(state, [status |-> "error",
                                        error |-> Some(START_FAILED \o m)])
          /\ pc' = [pc EXCEPT ![t] = "done"]
          /\ UNCHANGED <<playwright, pw>>
    /\ last' = "other"
    /\ UNCHANGED <<queue, browser, page, exc, waited, chained, attempted, outcome,
                   pwStops, leaked>>
    /\ UNCHANGED apiVars

\* `while self._running:`
LoopCheck(t) ==
    /\ pc[t] = "loop"
    /\ pc' = [pc EXCEPT ![t] = IF running THEN "get" ELSE "finally"]
    /\ last' = "other"
    /\ UNCHANGED <<queue, state, playwright, browser, page, exc, waited, chained,
                   attempted, outcome, pw, pwStops, leaked>>
    /\ UNCHANGED apiVars

\* Where the loop goes with a dequeued task
Dispatch(task) ==
    CASE task = "STOP" -> "finally"
      [] task = "LOGIN" -> "login_begin"
      [] task = "FETCH" -> "fetch_begin"

\* `task = self._task_queue.get(timeout=1)`; queue.Empty continues the loop
QueueGet(t) ==
    /\ pc[t] = "get"
    /\ IF queue # << >>
       THEN /\ queue' = Tail(queue)
            /\ pc' = [pc EXCEPT ![t] = Dispatch(Head(queue))]
       ELSE /\ queue' = queue
            /\ pc' = [pc EXCEPT ![t] = "loop"]
    /\ last' = "other"
    /\ UNCHANGED <<state, playwright, browser, page, exc, waited, chained,
                   attempted, outcome, pw, pwStops, leaked>>
    /\ UNCHANGED apiVars

\* The finally block: _cleanup_browser(), then `if self._playwright:` stop it
Finally(t) ==
    /\ pc[t] = "finally"
    /\ browser' = "none"
    /\ page' = CleanupPage
    /\ IF playwright # 0
       THEN /\ pw' = [pw EXCEPT ![playwright] = "stopped"]
            /\ pwStops' = [pwStops EXCEPT ![playwright] = @ + 1]
       ELSE UNCHANGED <<pw, pwStops>>
    /\ pc' = [pc EXCEPT ![t] = "done"]
    /\ last' = "other"
    /\ UNCHANGED <<queue, state, playwright, exc, waited, chained, attempted,
                   outcome, leaked>>
    /\ UNCHANGED apiVars

\* launch_persistent_context and the page lookup of _ensure_browser, entered
\* with self._browser None: the context and its page, the context alone (the
\* page lookup raised), or nothing; a failure is published and re-raised
Launch(t, M, mode, okPc, exceptPc) ==
    /\ attempted' = [attempted EXCEPT ![t] = TRUE]
    /\ \/ /\ playwright # 0 /\ pw[playwright] = "started"
          /\ browser' = mode
          /\ page' = TRUE
          /\ leaked' = (leaked \/ browser # "none")
          /\ pc' = [pc EXCEPT ![t] = okPc]
          /\ UNCHANGED <<state, exc>>
       \/ /\ playwright # 0 /\ pw[playwright] = "started"
          /\ browser' = mode
          /\ page' = page
          /\ leaked' = (leaked \/ browser # "none")
          /\ \E m \in M :
                /\ state' = Update(state, [status |-> "error",
                                           error |-> Some(LAUNCH_FAILED \o m)])
                /\ exc' = [exc EXCEPT ![t] = Some([msg |-> m, at |-> "launch"])]
          /\ pc' = [pc EXCEPT ![t] = exceptPc]
       \/ /\ \E m \in M :
                /\ state' = Update(state, [status |-> "error",
                                           error |-> Some(LAUNCH_FAILED \o m)])
                /\ exc' = [exc EXCEPT ![t] = Some([msg |-> m, at |-> "launch"])]
          /\ pc' = [pc EXCEPT ![t] = exceptPc]
          /\ UNCHANGED <<browser, page, leaked>>

\* Return of _do_fetch or _do_login to the task loop
\* (outcome: "launch_failed" when a launch failure ended it, else "other")
Return(t, how) ==
    /\ pc' = [pc EXCEPT ![t] = "loop"]
    /\ chained' = [chained EXCEPT ![t] = FALSE]
    /\ attempted' = [attempted EXCEPT ![t] = FALSE]
    /\ outcome' = [outcome EXCEPT ![t] = how]

\* The outcome of an operation ended by an exception raised at `at`
Failure(at) == IF at = "launch" THEN "launch_failed" ELSE "other"

(* _do_fetch *)

\* update(status="fetching", error=None), then _ensure_browser's early return
FetchBegin(t) ==
    /\ pc[t] = "fetch_begin"
    /\ state' = Update(state, [status |-> "fetching", error |-> None])
    /\ pc' = [pc EXCEPT ![t] = IF browser # "none" THEN "fetch_goto"
                                 ELSE "fetch_launching"]
    /\ attempted' = [attempted EXCEPT ![t] = FALSE]
    /\ last' = "other"
    /\ UNCHANGED <<queue, playwright, browser, page, exc, waited, chained, outcome,
                   pw, pwStops, leaked>>
    /\ UNCHANGED apiVars

FetchLaunch(t, M) ==
    /\ pc[t] = "fetch_launching"
    /\ Launch(t, M, "hidden", "fetch_goto", "fetch_except")
    /\ last' = "other"
    /\ UNCHANGED <<queue, playwright, waited, chained, outcome, pw, pwStops>>
    /\ UNCHANGED apiVars

\* self._page.goto(...): AttributeError when self._page is None
FetchGoto(t, M) ==
    /\ pc[t] = "fetch_goto"
    /\ IF ~page
       THEN /\ exc' = [exc EXCEPT ![t] = Some([msg |-> NoPageMsg, at |-> "goto"])]
            /\ pc' = [pc EXCEPT ![t] = "fetch_except"]
       ELSE \/ /\ pc' = [pc EXCEPT ![t] = "fetch_wait"]
               /\ exc' = exc
            \/ /\ \E m \in M :
                     exc' = [exc EXCEPT ![t] = Some([msg |-> m, at |-> "goto"])]
               /\ pc' = [pc EXCEPT ![t] = "fetch_except"]
    /\ last' = "other"
    /\ UNCHANGED <<queue, state, playwright, browser, page, waited, chained,
                   attempted, outcome, pw, pwStops, leaked>>
    /\ UNCHANGED apiVars

\* A wait that reports a missing marker as an error
FetchWaitAsError(t) ==
    /\ pc[t] = "fetch_wait"
    /\ \/ /\ page
          /\ pc' = [pc EXCEPT ![t] = "fetch_read"]
          /\ UNCHANGED <<state, chained, attempted, outcome>>
       \/ /\ state' = Update(state, [status |-> "error", logged_in |-> FALSE,
                                     error |-> Some(PLEASE_LOGIN)])
          /\ Return(t, "other")
    /\ last' = "other"
    /\ UNCHANGED <<queue, playwright, browser, page, exc, waited, pw, pwStops, leaked>>
    /\ UNCHANGED apiVars

\* wait_for_selector: the marker appears, or anything raised means "not logged in"
FetchWait(t) ==
    /\ pc[t] = "fetch_wait"
    /\ \/ /\ page
          /\ pc' = [pc EXCEPT ![t] = "fetch_read"]
          /\ UNCHANGED <<state, chained, attempted, outcome>>
       \/ /\ state' = Update(state, [status |-> "idle", logged_in |-> FALSE,
                                     error |-> Some(PLEASE_LOGIN)])
          /\ Return(t, "other")
    /\ last' = "other"
    /\ UNCHANGED <<queue, playwright, browser, page, exc, waited, pw, pwStops, leaked>>
    /\ UNCHANGED apiVars

\* wait_for_timeout, content(), _parse_usage, strftime and the success update
FetchRead(t, M, R) ==
    /\ pc[t] = "fetch_read"
    /\ \/ /\ \E r \in R :
                state' = Update(state, [status |-> "idle", logged_in |-> TRUE,
                                        usage_data |-> Some(r[1]),
                                        last_fetch_time |-> Some(r[2]),
                                        error |-> None])
          /\ Return(t, "other")
          /\ exc' = exc
       \/ /\ \E m \in M :
                exc' = [exc EXCEPT ![t] = Some([msg |-> m, at |-> "read"])]
          /\ pc' = [pc EXCEPT ![t] = "fetch_except"]
          /\ UNCHANGED <<state, chained, attempted, outcome>>
    /\ last' = "other"
    /\ UNCHANGED <<queue, playwright, browser, page, waited, pw, pwStops, leaked>>
    /\ UNCHANGED apiVars

\* A handler that swallows the exception without publishing it
FetchExceptSilent(t) ==
    /\ pc[t] = "fetch_except"
    /\ state' = state
    /\ Return(t, Failure(exc[t][1].at))
    /\ exc' = [exc EXCEPT ![t] = None]
    /\ last' = "other"
    /\ UNCHANGED <<queue, playwright, browser, page, waited, pw, pwStops, leaked>>
    /\ UNCHANGED apiVars

\* A handler that drops the last snapshot when it publishes the error
FetchExceptClearsData(t) ==
    /\ pc[t] = "fetch_except"
    /\ state' = Update(state, [status |-> "error",
                               error |-> Some(FetchErrorMsg(exc[t][1].msg)),
                               usage_data |-> None, last_fetch_time |-> None])
    /\ Return(t, Failure(exc[t][1].at))
    /\ exc' = [exc EXCEPT ![t] = None]
    /\ last' = "other"
    /\ UNCHANGED <<queue, playwright, browser, page, waited, pw, pwStops, leaked>>
    /\ UNCHANGED apiVars

\* `except Exception as e:` of _do_fetch
FetchExcept(t) ==
    /\ pc[t] = "fetch_except"
    /\ state' = Update(state, [status |-> "error",
                               error |-> Some(FetchErrorMsg(exc[t][1].msg))])
    /\ Return(t, Failure(exc[t][1].at))
    /\ exc' = [exc EXCEPT ![t] = None]
    /\ last' = "other"
    /\ UNCHANGED <<queue, playwright, browser, page, waited, pw, pwStops, leaked>>
    /\ UNCHANGED apiVars

(* _do_login *)

\* update(status="logging_in", error=None)
LoginBegin(t) ==
    /\ pc[t] = "login_begin"
    /\ state' = Update(state, [status |-> "logging_in", error |-> None])
    /\ pc' = [pc EXCEPT ![t] = "login_cleanup"]
    /\ attempted' = [attempted EXCEPT ![t] = FALSE]
    /\ last' = "other"
    /\ UNCHANGED <<queue, playwright, browser, page, exc, waited, chained, outcome,
                   pw, pwStops, leaked>>
    /\ UNCHANGED apiVars

\* "Close any existing browser": _cleanup_browser(), then _ensure_browser
\* finds self._browser None and starts the launch
LoginCleanup(t) ==
    /\ pc[t] = "login_cleanup"
    /\ browser' = "none"
    /\ page' = CleanupPage
    /\ pc' = [pc EXCEPT ![t] = "login_launching"]
    /\ last' = "other"
    /\ UNCHANGED <<queue, state, playwright, exc, waited, chained, attempted,
                   outcome, pw, pwStops, leaked>>
    /\ UNCHANGED apiVars

LoginLaunch(t, M) ==
    /\ pc[t] = "login_launching"
    /\ Launch(t, M, "visible", "login_goto", "login_except")
    /\ last' = "other"
    /\ UNCHANGED <<queue, playwright, waited, chained, outcome, pw, pwStops>>
    /\ UNCHANGED apiVars

\* self._page.goto(..., timeout=60000), then waited = 0
LoginGoto(t, M) ==
    /\ pc[t] = "login_goto"
    /\ IF ~page
       THEN /\ exc' = [exc EXCEPT ![t] = Some([msg |-> NoPageMsg, at |-> "goto"])]
            /\ pc' = [pc EXCEPT ![t] = "login_except"]
            /\ waited' = waited
       ELSE \/ /\ pc' = [pc EXCEPT ![t] = "login_poll"]
               /\ waited' = [waited EXCEPT ![t] = 0]
               /\ exc' = exc
            \/ /\ \E m \in M :
                     exc' = [exc EXCEPT ![t] = Some([msg |-> m, at |-> "goto"])]
               /\ pc' = [pc EXCEPT ![t] = "login_except"]
               /\ waited' = waited
    /\ last' = "other"
    /\ UNCHANGED <<queue, state, playwright, browser, page, chained, attempted,
                   outcome, pw, pwStops, leaked>>
    /\ UNCHANGED apiVars

\* A polling loop without a ceiling
LoginPollNoCeiling(t) == running

\* `while waited < max_wait and self._running:`
LoginPollContinues(t) == waited[t] < MaxWait /\ running

\* One turn of the polling loop: the loop condition, query_selector (whose
\* exceptions are swallowed), and wait_for_timeout(2000); waited += 2
LoginPoll(t, M) ==
    /\ pc[t] = "login_poll"
    /\ IF LoginPollContinues(t)
       THEN \/ /\ page
               /\ state' = Update(state, [status |-> "idle", logged_in |-> TRUE,
                                          error |-> None])
               /\ pc' = [pc EXCEPT ![t] = "login_ok_cleanup"]
               /\ waited' = [waited EXCEPT ![t] = 0]
               /\ exc' = exc
            \/ /\ page
               /\ waited' = [waited EXCEPT ![t] = @ + PollStep]
               /\ UNCHANGED <<state, pc, exc>>
            \/ /\ \E m \in M :
                     exc' = [exc EXCEPT ![t] = Some([msg |-> m, at |-> "poll"])]
               /\ pc' = [pc EXCEPT ![t] = "login_except"]
               /\ waited' = [waited EXCEPT ![t] = 0]
               /\ state' = state
       ELSE /\ state' = Update(state, [status |-> "error",
                                       error |-> Some(LOGIN_TIMEOUT)])
            /\ pc' = [pc EXCEPT ![t] = "login_teardown"]
            /\ waited' = [waited EXCEPT ![t] = 0]
            /\ exc' = exc
    /\ last' = "other"
    /\ UNCHANGED <<queue, playwright, browser, page, chained, attempted, outcome,
                   pw, pwStops, leaked>>
    /\ UNCHANGED apiVars

\* "Close visible browser", then "Now fetch data": self._do_fetch()
LoginOkCleanup(t) ==
    /\ pc[t] = "login_ok_cleanup"
    /\ browser' = "none"
    /\ page' = CleanupPage
    /\ chained' = [chained EXCEPT ![t] = TRUE]
    /\ pc' = [pc EXCEPT ![t] = "fetch_begin"]
    /\ last' = "other"
    /\ UNCHANGED <<queue, state, playwright, exc, waited, attempted, outcome, pw,
                   pwStops, leaked>>
    /\ UNCHANGED apiVars

\* `except Exception as e:` of _do_login: the update
LoginExcept(t) ==
    /\ pc[t] = "login_except"
    /\ state' = Update(state, [status |-> "error",
                               error |-> Some(LoginErrorMsg(exc[t][1].msg))])
    /\ pc' = [pc EXCEPT ![t] = "login_teardown"]
    /\ last' = "other"
    /\ UNCHANGED <<queue, playwright, browser, page, exc, waited, chained,
                   attempted, outcome, pw, pwStops, leaked>>
    /\ UNCHANGED apiVars

\* The _cleanup_browser() that ends the timeout path and the except path
LoginTeardown(t) ==
    /\ pc[t] = "login_teardown"
    /\ browser' = "none"
    /\ page' = CleanupPage
    /\ Return(t, IF exc[t] = None THEN "other" ELSE Failure(exc[t][1].at))
    /\ exc' = [exc EXCEPT ![t] = None]
    /\ last' = "other"
    /\ UNCHANGED <<queue, state, playwright, waited, pw, pwStops, leaked>>
    /\ UNCHANGED apiVars

(* --------------------------- specifications --------------------------- *)

\* One step of thread t outside _do_login: its exceptions carry a message of
\* M, its successful fetches a result of R
FetchWorker(t, M, R) ==
    \/ StartPlaywright(t, M)
    \/ LoopCheck(t)
    \/ QueueGet(t)
    \/ FetchBegin(t)
    \/ FetchLaunch(t, M)
    \/ FetchGoto(t, M)
    \/ FetchWait(t)
    \/ FetchRead(t, M, R)
    \/ FetchExcept(t)

\* One step of thread t inside _do_login, or its finally block
LoginWorker(t, M) ==
    \/ Finally(t)
    \/ LoginBegin(t)
    \/ LoginCleanup(t)
    \/ LoginLaunch(t, M)
    \/ LoginGoto(t, M)
    \/ LoginPoll(t, M)
    \/ LoginOkCleanup(t)
    \/ LoginExcept(t)
    \/ LoginTeardown(t)

Worker(t, M, R) == FetchWorker(t, M, R) \/ LoginWorker(t, M)

\* The API calls, start() spawning at most `limit` threads and the queue
\* holding at most `qmax` tasks
Api(limit, qmax) ==
    \/ Start(limit)
    \/ Stop(qmax)
    \/ JoinReturn
    \/ JoinTimeout
    \/ RequestFetch(qmax)
    \/ RequestLogin(qmax)

\* The scraper in which start() spawns at most MaxThreads threads
Next ==
    Api(MaxThreads, MaxQueue) \/ \E t \in Threads : Worker(t, BaseMsgs, BaseResults)

Spec == Init /\ [][Next]_vars

\* The scraper with one more thread and one more queue slot: a stop() whose
\* join timed out, or whose thread has exited, can be followed by a start()
NextRestart ==
    \/ Api(MaxThreads + 1, MaxQueue + 1)
    \/ \E t \in Threads : Worker(t, BaseMsgs, BaseResults)

SpecRestart == Init /\ [][NextRestart]_vars

\* app.py calls scraper.start() once, when the application is constructed
AppStarts == 1

\* The scraper as app.py drives it: one start(), then requests and a stop()
NextApp ==
    Api(AppStarts, MaxQueue) \/ \E t \in Threads : Worker(t, BaseMsgs, BaseResults)

\* The same with a worker thread that keeps running: every blocking call of
\* the worker returns or times out (goto 60000 / 30000 ms, wait_for_selector
\* 10000 ms, wait_for_timeout 2000 ms, queue get 1 s)
SpecApp ==
    Init /\ [][NextApp]_vars
         /\ \A t \in Threads : WF_vars(Worker(t, BaseMsgs, BaseResults))

(* ------------------- ScraperState's lock, stepwise -------------------- *)

\* The order in which get_snapshot() reads the fields
Fields == <<"status", "error", "logged_in", "usage_data", "last_fetch_time">>

\* The keyword arguments of the update() calls of the scraper, in call order
UpdateCalls ==
    {<<<<"status", "logging_in">>, <<"error", None>>>>,
     <<<<"status", "idle">>, <<"logged_in", TRUE>>, <<"error", None>>>>,
     <<<<"status", "error">>, <<"error", Some(LOGIN_TIMEOUT)>>>>,
     <<<<"status", "fetching">>, <<"error", None>>>>,
     <<<<"status", "idle">>, <<"logged_in", FALSE>>, <<"error", Some(PLEASE_LOGIN)>>>>}
    \cup {<<<<"status", "idle">>, <<"logged_in", TRUE>>, <<"usage_data", Some(r[1])>>,
            <<"last_fetch_time", Some(r[2])>>, <<"error", None>>>> : r \in FetchResults}

\* The kwargs as the record Update takes
KwRecord(kw) ==
    [k \in {kw[i][1] : i \in DOMAIN kw} |->
        kw[CHOOSE i \in DOMAIN kw : kw[i][1] = k][2]]

\* The dict get_snapshot() builds from the values read
Snapshot(vals) == [f \in {Fields[i] : i \in DOMAIN Fields} |->
                    vals[CHOOSE i \in DOMAIN Fields : Fields[i] = f]]

\* A lock that excludes nobody
CanAcquireAlways == TRUE

\* `with self._lock:` blocks until the lock is free
CanAcquire == lock = None

lockFrame == UNCHANGED <<running, queue, browser_thread, playwright, browser, page,
                         pc, exc, waited, chained, attempted, outcome, pw, pwStops,
                         leaked, caller, nthreads, last, html>>

\* update(**kwargs) takes the lock
UpdateEnter(w, kw) ==
    /\ wpc[w] = "idle"
    /\ CanAcquire
    /\ lock' = Some(<<"writer", w>>)
    /\ wpc' = [wpc EXCEPT ![w] = "locked"]
    /\ pending' = [pending EXCEPT ![w] = kw]
    /\ entry' = [entry EXCEPT ![w] = Some([st |-> state, kw |-> kw])]
    /\ UNCHANGED <<state, rpc, got, window, committed>>
    /\ lockFrame

\* One turn of `for key, value in kwargs.items(): setattr(self, key, value)`
UpdateSetattr(w) ==
    /\ wpc[w] = "locked"
    /\ pending[w] # << >>
    /\ state' = [state EXCEPT ![Head(pending[w])[1]] = Head(pending[w])[2]]
    /\ pending' = [pending EXCEPT ![w] = Tail(@)]
    /\ UNCHANGED <<lock, wpc, entry, rpc, got, window, committed>>
    /\ lockFrame

\* update() releases the lock; the readers inside get_snapshot() see a new
\* whole update
UpdateExit(w) ==
    /\ wpc[w] = "locked"
    /\ pending[w] = << >>
    /\ lock' = None
    /\ wpc' = [wpc EXCEPT ![w] = "idle"]
    /\ entry' = [entry EXCEPT ![w] = None]
    /\ committed' = state
    /\ window' = [r \in Readers |->
                    IF rpc[r] = "locked" THEN window[r] \cup {state} ELSE window[r]]
    /\ UNCHANGED <<state, pending, rpc, got>>
    /\ lockFrame

\* get_snapshot() takes the lock
SnapshotEnter(r) ==
    /\ rpc[r] = "idle"
    /\ CanAcquire
    /\ lock' = Some(<<"reader", r>>)
    /\ rpc' = [rpc EXCEPT ![r] = "locked"]
    /\ got' = [got EXCEPT ![r] = << >>]
    /\ window' = [window EXCEPT ![r] = {committed}]
    /\ UNCHANGED <<state, wpc, pending, entry, committed>>
    /\ lockFrame

\* get_snapshot() reads the next field into the dict
SnapshotRead(r) ==
    /\ rpc[r] = "locked"
    /\ Len(got[r]) < Len(Fields)
    /\ got' = [got EXCEPT ![r] = Append(@, state[Fields[Len(@) + 1]])]
    /\ UNCHANGED <<state, lock, wpc, pending, entry, rpc, window, committed>>
    /\ lockFrame

\* get_snapshot() releases the lock and returns the dict
SnapshotExit(r) ==
    /\ rpc[r] = "locked"
    /\ Len(got[r]) = Len(Fields)
    /\ lock' = None
    /\ rpc' = [rpc EXCEPT ![r] = "idle"]
    /\ got' = [got EXCEPT ![r] = << >>]
    /\ window' = [window EXCEPT ![r] = {}]
    /\ UNCHANGED <<state, wpc, pending, entry, committed>>
    /\ lockFrame

\* Writers calling update() and readers calling get_snapshot(), in any
\* interleaving
NextState ==
    \/ \E w \in Threads : \E kw \in UpdateCalls : UpdateEnter(w, kw)
    \/ \E w \in Threads : UpdateSetattr(w) \/ UpdateExit(w)
    \/ \E r \in Readers : SnapshotEnter(r) \/ SnapshotRead(r) \/ SnapshotExit(r)

SpecState == Init /\ [][NextState]_vars

\* update(status="fetching", error=None)
FetchingKw == <<<<"status", "fetching">>, <<"error", None>>>>

\* The update of a successful fetch, for the result r
SuccessKw(r) ==
    <<<<"status", "idle">>, <<"logged_in", TRUE>>, <<"usage_data", Some(r[1])>>,
      <<"last_fetch_time", Some(r[2])>>, <<"error", None>>>>

\* update(status="idle", logged_in=False, error="Please login")
NotLoggedInKw ==
    <<<<"status", "idle">>, <<"logged_in", FALSE>>, <<"error", Some(PLEASE_LOGIN)>>>>

\* A successful fetch that publishes its status without its data
FetchCallsWithoutData ==
    IF committed.status = "fetching"
    THEN {<<<<"status", "idle">>, <<"logged_in", TRUE>>, <<"error", None>>>>,
          NotLoggedInKw}
    ELSE {FetchingKw}

\* The update() calls of _do_fetch in program order: "fetching" first, then
\* the success update with a result that differs from the one published
\* before, or the not-logged-in update
FetchCalls ==
    IF committed.status = "fetching"
    THEN {SuccessKw(r) : r \in {x \in FetchResults : Some(x[1]) # committed.usage_data}}
         \cup {NotLoggedInKw}
    ELSE {FetchingKw}

\* Threads running fetch after fetch, their update() calls stepwise under the
\* lock, and readers calling get_snapshot() in any interleaving
NextFetchState ==
    \/ \E w \in 1..MaxThreads : \E kw \in FetchCalls : UpdateEnter(w, kw)
    \/ \E w \in 1..MaxThreads : UpdateSetattr(w) \/ UpdateExit(w)
    \/ \E r \in Readers : SnapshotEnter(r) \/ SnapshotRead(r) \/ SnapshotExit(r)

SpecFetchState == Init /\ [][NextFetchState]_vars

\* Exception messages drawn by the message specification: start(),
\* request_fetch() and a thread that only fetches
NextMsg ==
    \/ Start(MaxThreads)
    \/ RequestFetch(MaxQueue)
    \/ \E t \in Threads : FetchWorker(t, FullMsgs, BaseResults)

SpecMsg == Init /\ [][NextMsg]_vars

\* The time strftime("%H:%M") returns in the parser specification
ParseTime == "09:00"

\* What a successful fetch publishes for the document served
ParseResults == {<<ParseUsage(html), ParseTime>>}

\* The dashboard serves any document of Docs
InitParse == ScraperInit /\ html \in Docs

\* The parser specification: start(), request_fetch() and a thread that only
\* fetches, parsing the document served
NextParse ==
    \/ Start(MaxThreads)
    \/ RequestFetch(MaxQueue)
    \/ \E t \in Threads : FetchWorker(t, BaseMsgs, ParseResults)

SpecParse == InitParse /\ [][NextParse]_vars

(* ------------------------------ claims -------------------------------- *)

\* A request_fetch() / request_login() step of either specification
RequestFetchStep == RequestFetch(MaxQueue + 1)

RequestLoginStep == RequestLogin(MaxQueue + 1)

\* Thread t is inside _do_login after it has published "logging_in",
\* the _do_fetch it chains included
InLogin(t) ==
    \/ pc[t] \in LoginPcs \ {"login_begin"}
    \/ pc[t] \in FetchPcs /\ chained[t]

\* C1: request_fetch() called while status is "fetching" or "logging_in"
\* leaves the task queue unchanged; called in any other status it appends
\* exactly one FETCH task at the tail of the queue.
C1_RequestFetchGuard ==
    [][RequestFetchStep =>
        IF state.status \in {"fetching", "logging_in"}
        THEN queue' = queue
        ELSE /\ Len(queue') = Len(queue) + 1
             /\ SubSeq(queue', 1, Len(queue)) = queue
             /\ queue'[Len(queue')] = "FETCH"]_vars

\* request_fetch() has just been called during a fetch and changed nothing
C1_Witness == last = "request_fetch_skip" /\ state.status = "fetching"

\* C2: on every exit path of the worker thread the open session is closed
\* and the automation driver the thread started is stopped exactly once
\* before the thread exits, and no session remains open afterwards.
C2_TornDownOnce ==
    \A t \in Threads :
        pc[t] = "done" /\ pw[t] # "unstarted" =>
            /\ pwStops[t] = 1
            /\ ~leaked
            /\ (\A u \in Threads : pc[u] \notin LivePcs) => browser = "none"

\* C3: whenever a worker is back waiting on the queue and no operation is
\* running, status is "idle" or "error"; an operation, however it fails, hands
\* control back to the task loop and never ends it; and the next get of a
\* non-empty queue dequeues its head and dispatches it.
C3_BackToIdleOrError ==
    /\ []((/\ \E t \in Threads : pc[t] \in {"loop", "get"}
          /\ \A t \in Threads : pc[t] \notin OpPcs)
            => state.status \in {"idle", "error"})
    /\ [][\A t \in Threads :
            /\ pc[t] \in OpPcs => pc'[t] \in OpPcs \cup {"loop"}
            /\ (pc[t] = "get" /\ pc'[t] # "get" /\ queue # << >>) =>
                    /\ queue' = Tail(queue)
                    /\ pc'[t] = Dispatch(Head(queue))]_vars

\* A thread whose last operation a launch failure ended is running a later one
C3_Witness ==
    \E t \in Threads :
        outcome[t] = "launch_failed" /\ pc[t] \in {"fetch_goto", "login_launching"}

\* C4: the dict get_snapshot() is about to return equals the fields as they
\* stood after some whole update (or before the first), never a mix; and an
\* update() about to return has changed exactly the fields it was given,
\* unmixed with another update.
C4_SnapshotAtomic ==
    /\ \A r \in Readers :
        (rpc[r] = "locked" /\ Len(got[r]) = Len(Fields)) =>
            Snapshot(got[r]) \in window[r]
    /\ \A w \in Threads :
        (wpc[w] = "locked" /\ pending[w] = << >>) =>
            state = Update(entry[w][1].st, KwRecord(entry[w][1].kw))

\* A reader holds a complete snapshot taken after a successful fetch's update
C4_Witness ==
    \E r \in Readers :
        /\ rpc[r] = "locked" /\ Len(got[r]) = Len(Fields)
        /\ Snapshot(got[r]).status = "idle"
        /\ Snapshot(got[r]).usage_data # None

\* C5: at most one worker thread is running the task loop at any time.
C5_SingleWorker == Cardinality({t \in Threads : pc[t] \in LoopPcs}) <= 1

\* C6: the queue is FIFO (tasks enter at the tail and leave at the head, each
\* once, the dequeued task being the one dispatched), and a task is dequeued
\* only when no operation is running.
C6_FifoOneAtATime ==
    [][queue' # queue =>
        \/ \E task \in {"STOP", "LOGIN", "FETCH"} : queue' = Append(queue, task)
        \/ /\ queue # << >>
           /\ queue' = Tail(queue)
           /\ \E t \in Threads :
                /\ pc[t] = "get"
                /\ pc' = [pc EXCEPT ![t] = Dispatch(Head(queue))]
           /\ \A t \in Threads : pc[t] \notin OpPcs]_vars

\* C7 (as claimed): from the moment a Login has published "logging_in" until
\* it returns, the chained Fetch included, every request_fetch() leaves the
\* queue unchanged.
C7_NoFetchDuringLogin ==
    [][(RequestFetchStep /\ \E t \in Threads : InLogin(t)) => queue' = queue]_vars

\* C7 (amended): during a Login, the chained Fetch included, request_fetch()
\* leaves the queue unchanged exactly when the status it reads is "logging_in"
\* or "fetching"; in the windows where the Login has already published "idle"
\* or "error" it appends a FETCH task.
C7_FetchDuringLoginByStatus ==
    [][(RequestFetchStep /\ \E t \in Threads : InLogin(t)) =>
        IF state.status \in {"logging_in", "fetching"}
        THEN queue' = queue
        ELSE queue' = Append(queue, "FETCH")]_vars

\* request_fetch() has just enqueued a task while a Login that detected the
\* marker is closing its visible session
C7_Witness ==
    /\ last = "request_fetch_put"
    /\ state.status = "idle"
    /\ \E t \in Threads : pc[t] = "login_ok_cleanup"

\* C8: after an operation that a launch failure ended, the next Fetch of the
\* thread does not reach page.goto without having attempted a launch.
C8_RelaunchAfterFailure ==
    \A t \in Threads :
        outcome[t] = "launch_failed" /\ pc[t] \in {"fetch_goto", "login_goto"}
            => attempted[t]

\* C9 (as claimed): the string a failed Fetch publishes is "Page load
\* timeout" if the exception message says "Timeout", and otherwise the raw
\* message cut to at most 50 characters.
C9_ErrorAtMost50 ==
    [][\A t \in Threads :
        (pc[t] = "fetch_except" /\ pc'[t] # "fetch_except") =>
            LET m == exc[t][1].msg
                e == state'.error[1]
            IN  /\ state'.status = "error"
                /\ state'.error # None
                /\ IF Contains(m, TimeoutWord)
                   THEN e = PAGE_LOAD_TIMEOUT
                   ELSE Len(e) <= TruncLen /\ e = Prefix(m, TruncLen)]_vars

\* C9 (amended): the string a failed Fetch publishes is "Page load timeout"
\* if the exception message says "Timeout"; otherwise it is the raw message
\* when that has at most 50 characters, and else its first 50 characters
\* followed by "...", 53 characters in all.
C9_ErrorAtMost53 ==
    [][\A t \in Threads :
        (pc[t] = "fetch_except" /\ pc'[t] # "fetch_except") =>
            LET m == exc[t][1].msg
                e == state'.error[1]
            IN  /\ state'.status = "error"
                /\ state'.error # None
                /\ IF Contains(m, TimeoutWord)
                   THEN e = PAGE_LOAD_TIMEOUT
                   ELSE /\ Len(e) = IF Len(m) <= TruncLen THEN Len(m) ELSE TruncLen + 3
                        /\ \A i \in 1..Len(e) :
                              e[i] = IF i <= TruncLen THEN m[i] ELSE "."]_vars

\* A failed Fetch has published 50 characters of its message and "..."
C9_Witness ==
    /\ state.status = "error"
    /\ state.error = Some(Pad(TruncLen) \o Ellipsis)
    /\ \E t \in Threads : pc[t] = "loop" /\ outcome[t] = "other"

\* C10: request_login() called while status is "logging_in" leaves the task
\* queue unchanged; called in any other status it appends exactly one LOGIN
\* task at the tail of the queue.
C10_RequestLoginGuard ==
    [][RequestLoginStep =>
        IF state.status = "logging_in"
        THEN queue' = queue
        ELSE /\ Len(queue') = Len(queue) + 1
             /\ SubSeq(queue', 1, Len(queue)) = queue
             /\ queue'[Len(queue')] = "LOGIN"]_vars

\* request_login() has just been called during a login and changed nothing
C10_Witness == last = "request_login_skip" /\ state.status = "logging_in"

\* The first dashboard-table-row of the document served
FirstRow == html[1]

\* C11: for every first usage row, whatever its number of cells, the parsed
\* is_max_mode is true if and only if some text of the row holds "Max" as a
\* standalone case-insensitive word.
C11_MaxModeIffMaxWord ==
    (state.usage_data # None /\ html # << >>) =>
        (state.usage_data[1].is_max_mode
            <=> \E i \in DOMAIN FirstRow : SearchMaxWord(FirstRow[i].text))

\* C12: a Fetch whose navigation succeeded and whose marker does not appear
\* publishes status "idle", logged_in false and error "Please login", all
\* other fields (usage_data, last_fetch_time) as they were, and returns to the
\* task loop without parsing; its status is not "error".
C12_NotLoggedInIsIdle ==
    [][\A t \in Threads :
        (pc[t] = "fetch_wait" /\ pc'[t] \notin {"fetch_wait", "fetch_read"}) =>
            /\ pc'[t] = "loop"
            /\ state'.status = "idle"
            /\ state' = [state EXCEPT !.status = "idle", !.logged_in = FALSE,
                                      !.error = Some(PLEASE_LOGIN)]]_vars

\* A Fetch has found no marker after an earlier Fetch had published usage
\* data, which is still there
C12_Witness ==
    /\ state.status = "idle"
    /\ state.error = Some(PLEASE_LOGIN)
    /\ ~state.logged_in
    /\ state.usage_data # None
    /\ state.last_fetch_time # None

\* C13: a successful Fetch publishes status "idle", logged_in true, the new
\* usage_data, the new last_fetch_time and error None in one update: the
\* dict a reader is about to return shows the status, usage_data and
\* last_fetch_time of one whole update (never the new usage_data with
\* "fetching"), and when the lock is released with the status gone from
\* "fetching" to a logged-in "idle", usage_data and last_fetch_time are the
\* new ones and error is None.
C13_FetchPublishedAtOnce ==
    /\ [](\A r \in Readers :
            (rpc[r] = "locked" /\ Len(got[r]) = Len(Fields)) =>
                LET s == Snapshot(got[r])
                IN  /\ s.status = committed.status
                    /\ s.usage_data = committed.usage_data
                    /\ s.last_fetch_time = committed.last_fetch_time)
    /\ [][(/\ committed.status = "fetching"
           /\ committed'.status = "idle"
           /\ committed'.logged_in) =>
                /\ committed'.usage_data \notin {None, committed.usage_data}
                /\ committed'.last_fetch_time \notin {None, committed.last_fetch_time}
                /\ committed'.error = None]_vars

\* A reader holds the complete snapshot of a successful fetch that replaced
\* the data of an earlier one
C13_Witness ==
    \E r \in Readers :
        /\ rpc[r] = "locked" /\ Len(got[r]) = Len(Fields)
        /\ Snapshot(got[r]) =
                [status |-> "idle", error |-> None, logged_in |-> TRUE,
                 usage_data |-> Some("usage_b"), last_fetch_time |-> Some("09:15")]

\* Thread t is between Login's detection of the marker and the end of the
\* Fetch it chains
InLoginSuccess(t) ==
    \/ pc[t] = "login_ok_cleanup"
    \/ pc[t] \in FetchPcs /\ chained[t]

\* C14: when Login detects the marker it publishes status "idle", logged_in
\* true, error None, then closes the visible session, then runs a Fetch that
\* launches a fresh hidden session; no task is dequeued from the detection
\* until that Fetch has finished.
C14_LoginSuccessChain ==
    [][/\ \A t \in Threads :
            /\ (pc[t] = "login_poll" /\ pc'[t] = "login_ok_cleanup") =>
                    state' = [state EXCEPT !.status = "idle", !.logged_in = TRUE,
                                              !.error = None]
            /\ (pc[t] = "login_ok_cleanup" /\ pc'[t] # pc[t]) =>
                    /\ browser' = "none"
                    /\ pc'[t] = "fetch_begin" /\ chained'[t]
            /\ (InLoginSuccess(t) /\ pc[t] = "fetch_begin" /\ pc'[t] # pc[t]) =>
                    pc'[t] = "fetch_launching"
            /\ (InLoginSuccess(t) /\ pc[t] = "fetch_launching" /\ browser' # browser) =>
                    browser' = "hidden"
            /\ (InLoginSuccess(t) /\ ~InLoginSuccess(t)') => pc'[t] = "loop"
       /\ (queue # << >> /\ queue' = Tail(queue)) =>
            \A t \in Threads : ~InLoginSuccess(t)]_vars

\* Most polls one Login makes: max_wait / 2, rounded up (150 in the source)
MaxPolls == (MaxWait + PollStep - 1) \div PollStep

\* Thread t is inside _do_login, the _do_fetch it chains included
LoginRunning(t) == pc[t] \in LoginPcs \/ (pc[t] \in FetchPcs /\ chained[t])

\* C15: a Login always terminates; it polls at most MaxPolls times, 2 seconds
\* apart; when the polling loop ends without the marker the Login publishes
\* status "error" with "Login timeout - please try again", then closes the
\* session, publishing nothing more, and returns to the task loop with no
\* session held.
C15_LoginTerminates ==
    /\ [](\A t \in Threads : waited[t] <= MaxPolls * PollStep)
    /\ [][\A t \in Threads :
            /\ (pc[t] = "login_poll" /\ pc'[t] = "login_poll"
                    /\ waited'[t] # waited[t]) =>
                    /\ waited[t] < MaxWait
                    /\ waited'[t] = waited[t] + PollStep
            /\ (pc[t] = "login_poll" /\ pc'[t] = "login_teardown") =>
                    /\ state'.status = "error"
                    /\ state'.error = Some(LOGIN_TIMEOUT)
            /\ (pc[t] = "login_teardown" /\ pc'[t] # pc[t]) =>
                    /\ pc'[t] = "loop"
                    /\ state' = state
                    /\ browser' = "none" /\ ~page']_vars
    /\ \A t \in Threads : LoginRunning(t) ~> pc[t] = "loop"

\* A Login whose polling reached the ceiling has published the timeout and
\* is about to close its session
C15_Witness ==
    \E t \in Threads :
        /\ pc[t] = "login_teardown" /\ exc[t] = None
        /\ running
        /\ state.status = "error" /\ state.error = Some(LOGIN_TIMEOUT)

\* C16: while a Login navigates and polls, the session is a visible one, and
\* while a Fetch navigates, waits and reads, the session is a hidden one.
C16_VisibilityMatchesOperation ==
    \A t \in Threads :
        /\ pc[t] \in {"login_goto", "login_poll"} => browser = "visible"
        /\ pc[t] \in {"fetch_goto", "fetch_wait", "fetch_read"} => browser = "hidden"

\* C17: at most one session is open: no session loses its only reference
\* while open, a session is launched only when none is held, and a Fetch that
\* finds a session held reuses it without launching.
C17_OneSession ==
    /\ [](~leaked)
    /\ [][/\ (browser' # browser /\ browser' # "none") => browser = "none"
          /\ \A t \in Threads :
                (pc[t] = "fetch_begin" /\ pc'[t] # pc[t] /\ browser # "none") =>
                    /\ pc'[t] = "fetch_goto"
                    /\ browser' = browser /\ page' = page]_vars

\* C18: every step of a Fetch other than its success update and its
\* not-logged-in update leaves usage_data, last_fetch_time and logged_in as
\* they were, and the handler of a failed Fetch changes exactly status (to
\* "error") and error.
C18_FailedFetchKeepsData ==
    [][\A t \in Threads :
        /\ (/\ pc[t] \in FetchPcs /\ pc'[t] # pc[t]
            /\ ~(pc[t] \in {"fetch_wait", "fetch_read"} /\ pc'[t] = "loop")) =>
                /\ state'.usage_data = state.usage_data
                /\ state'.last_fetch_time = state.last_fetch_time
                /\ state'.logged_in = state.logged_in
        /\ (pc[t] = "fetch_except" /\ pc'[t] # pc[t]) =>
                /\ pc'[t] = "loop"
                /\ state'.error # None
                /\ state' = [state EXCEPT !.status = "error", !.error = state'.error]]_vars

\* A Fetch has failed after an earlier Fetch had published usage data, which
\* readers still get
C18_Witness ==
    /\ state.status = "error"
    /\ state.error = Some(FetchErrorMsg(Pad(TruncLen + 1)))
    /\ state.logged_in
    /\ state.usage_data # None /\ state.last_fetch_time # None

\* C19: a worker started after a stop() whose worker has exited is not
\* terminated by a STOP left in the queue: no thread takes STOP off the queue
\* while the running flag is set, an earlier worker has exited and no other
\* worker is alive.
C19_NoStaleStop ==
    [][\A t \in Threads :
        ~(/\ pc[t] = "get" /\ pc'[t] = "finally"
          /\ running
          /\ \E u \in Threads : pc[u] = "done"
          /\ \A u \in Threads \ {t} : pc[u] \notin LivePcs)]_vars

\* C20: while the running flag is set and no stop() has been called, a task
\* accepted into the queue has a live worker to dequeue it, whether or not
\* the automation driver started.
C20_AcceptedTaskHasWorker ==
    (running /\ queue # << >>) => \E t \in Threads : pc[t] \in LivePcs

\* C21: "Login timeout - please try again" is published only by a Login
\* whose polling has reached the ceiling (waited >= max_wait): a Login whose
\* loop ends for another reason, such as stop() clearing the running flag,
\* does not publish it.
C21_TimeoutOnlyAtCeiling ==
    [][\A t \in Threads :
        (/\ pc[t] = "login_poll" /\ pc'[t] = "login_teardown"
         /\ state'.error = Some(LOGIN_TIMEOUT)) =>
            waited[t] >= MaxWait]_vars

\* C22: between operations a held session implies a held page: whenever a
\* worker is at the task loop and self._browser is set, self._page is set
\* too, also after a launch that failed part-way.
C22_SessionImpliesPage ==
    (\A t \in Threads : pc[t] \notin OpPcs) => (browser # "none" => page)

====
